---- MODULE Spec2Model ----
(***************************************************************************)
(* Model of the Gemini proxy's outbound dispatch, callGeminiWithRetry      *)
(* (src/server.js, and the identical earlier revision in                   *)
(* src/unnamed/part_000).  One dispatch walks the credential pool          *)
(* GEMINI_KEYS in order; on each credential it issues fetch calls,         *)
(* retrying 503 with a doubling delay, failing over on 429 and on          *)
(* transport errors, and returning every other response.                   *)
(*                                                                         *)
(* The actions are the segments of the async function between its          *)
(* suspension points (await fetch / await resp.text(), await setTimeout),  *)
(* split at the loop heads.  The downstream service and the timers are     *)
(* the environment.                                                        *)
(***************************************************************************)
EXTENDS Integers, Sequences, FiniteSets, TLC

\* ---------------------------------------------------------------- bounds
\* Longest credential pool explored.
MaxKeys == 3
\* Largest maxRetriesPerKey argument explored (the /chat caller passes 2).
MaxRetriesArg == 2

\* Longest credential pool explored with two concurrent invocations.
ConcMaxKeys == 1

\* ------------------------------------------------------- the environment
\* HTTP statuses the downstream service answers with.
Statuses == {200, 201, 400, 429, 500, 503}
\* Response bodies (opaque text to the dispatcher).
Bodies == {"bodyX", "{}",
           "{\"candidates\":[{\"content\":{\"parts\":[{\"text\":\"A\"},{\"text\":\"B\"}]}}]}"}
\* The exception fetch() or resp.text() throws when the network fails.
Errors == {[name |-> "TypeError", message |-> "fetch failed"]}
\* Identities of the invocations of callGeminiWithRetry.
DispatchIds == {1, 2}

\* The credential at position i of the configured list: the two values
\* alternate, so a pool of three or more holds one value at two positions
\* (the startup code does not remove repeated keys).
KeyAt(i) == IF i % 2 = 1 THEN "keyA" ELSE "keyB"

\* The pools explored: every length from empty to MaxKeys.
Pools == {[i \in 1..n |-> KeyAt(i)] : n \in 0..MaxKeys}

\* ------------------------------------------------------ program constants
\* let delayMs = 1500
BaseDelayMs == 1500

\* ------------------------------------------------------------ pure parts
\* Variant of RespOk that accepts 200 only: resp.status === 200.
RespOkOnly200(status) == status = 200

\* resp.ok of the Fetch API: the status is in the range 200-299.
RespOk(status) == status >= 200 /\ status <= 299

\* String(e) for an Error object: "<name>: <message>".
StringOfError(e) == e.name \o ": " \o e.message

\* lastError = null
Null == [ok |-> FALSE, status |-> -1, body |-> "<null>"]

\* The object returned before the loop when the pool is empty.
NoKeysOutcome == [ok |-> FALSE, status |-> 0, body |-> "No Gemini API keys configured"]

\* The object returned after the loop when lastError is still null.
AllFailedOutcome == [ok |-> FALSE, status |-> 0, body |-> "All Gemini API keys failed"]

\* The object built from a response: { ok, status: resp.status, body: text }.
OutcomeOf(ok, status, text) == [ok |-> ok, status |-> status, body |-> text]

\* The object recorded for a transport error: { ok:false, status:0, body:String(e) }.
NetworkErrorOutcome(e) == [ok |-> FALSE, status |-> 0, body |-> StringOfError(e)]

\* Variant of ShouldRetry with one more retry: attempt <= maxRetriesPerKey + 2.
ShouldRetryOnceMore(status, att, maxRetries) == status = 503 /\ att <= maxRetries + 2

\* Variant of ShouldRetry that also retries a 429 with backoff.
ShouldRetryAlso429(status, att, maxRetries) ==
  status \in {503, 429} /\ att <= maxRetries + 1

\* resp.status === 503 && attempt <= maxRetriesPerKey + 1
ShouldRetry(status, att, maxRetries) == status = 503 /\ att <= maxRetries + 1

\* lastError || { ... 'All Gemini API keys failed' }
ExhaustedOutcome(lastErr) == IF lastErr = Null THEN AllFailedOutcome ELSE lastErr

\* ------------------------------------------------------------------ state
VARIABLES
  GEMINI_KEYS,       \* the credential pool, built once at startup
  maxRetriesPerKey,  \* the retry budget argument of the invocations
  requests,          \* the invocations the callers make in this run
  pc,                \* per invocation: where the async function stands
  keyIndex,          \* per invocation: for-loop variable (0-based)
  attempt,           \* per invocation: attempt counter of the current key
  delayMs,           \* per invocation: next backoff delay of the current key
  lastError,         \* per invocation: lastError (Null when null)
  resp,              \* per invocation: what the last fetch produced
  result,            \* per invocation: the returned outcome (Null until return)
  inflight,          \* per invocation: number of fetch calls not yet settled
  trace,             \* per invocation: the I/O it performed, in order
  RAW_KEYS,          \* the raw configuration value the pool was built from
  hpc,               \* per /chat handler: where the handler stands
  req,               \* per /chat handler: the inbound request body
  data,              \* per /chat handler: the parsed success body
  res                \* per /chat handler: the response sent to the client

\* The startup configuration and the state of the /chat handlers, which no
\* step of callGeminiWithRetry touches.
outerVars == <<RAW_KEYS, hpc, req, data, res>>

vars == <<GEMINI_KEYS, maxRetriesPerKey, requests, pc, keyIndex, attempt,
          delayMs, lastError, resp, result, inflight, trace, outerVars>>

\* resp and text of an iteration whose fetch has not settled.
NoResp == [kind |-> "none", status |-> -1, body |-> "", error |-> ""]

\* One entry of the I/O trace.
Event(ev, k, n) == [ev |-> ev, keyIndex |-> k, n |-> n]

\* --------------------------------------------------- text and JSON values
\* Texts that are inspected character by character (raw configuration,
\* reply texts) are sequences of one-character strings.
\* The characters String.prototype.trim() removes at both ends.
Whitespace == {" ", "\n", "\t"}

\* s.trim()
RECURSIVE TrimStart(_)
TrimStart(s) ==
  IF Len(s) > 0 /\ s[1] \in Whitespace THEN TrimStart(Tail(s)) ELSE s

RECURSIVE TrimEnd(_)
TrimEnd(s) ==
  IF Len(s) > 0 /\ s[Len(s)] \in Whitespace THEN TrimEnd(SubSeq(s, 1, Len(s) - 1)) ELSE s

\* Variant of Trim that removes white space at the start only: trimStart().
TrimStartOnly(s) == TrimStart(s)

Trim(s) == TrimEnd(TrimStart(s))

\* texts.join(sep): the texts with sep between consecutive ones.
RECURSIVE Join(_, _)
Join(texts, sep) ==
  IF Len(texts) = 0 THEN <<>>
  ELSE IF Len(texts) = 1 THEN texts[1]
  ELSE texts[1] \o sep \o Join(Tail(texts), sep)

\* A JSON value: its type, its characters when a string, and its members
\* (with their keys when an object).  JUndefined is JavaScript's undefined.
JValue(type, str, keys, items) == [type |-> type, str |-> str, keys |-> keys, items |-> items]
JUndefined == JValue("undefined", <<>>, <<>>, <<>>)
JNull == JValue("null", <<>>, <<>>, <<>>)
JNumber == JValue("number", <<>>, <<>>, <<>>)
JString(chars) == JValue("string", chars, <<>>, <<>>)
JArray(items) == JValue("array", <<>>, <<>>, items)
JObject(keys, items) == JValue("object", <<>>, keys, items)

\* v?.key : undefined when v is null or undefined or has no such property.
OptGet(v, key) ==
  IF v.type = "object" /\ \E i \in 1..Len(v.keys) : v.keys[i] = key
  THEN v.items[CHOOSE i \in 1..Len(v.keys) : v.keys[i] = key]
  ELSE JUndefined

\* v?.[0] : the first element of an array, the first character of a string.
OptFirst(v) ==
  IF v.type = "array" /\ Len(v.items) > 0 THEN v.items[1]
  ELSE IF v.type = "string" /\ Len(v.str) > 0 THEN JString(<<v.str[1]>>)
  ELSE OptGet(v, "0")

\* p && typeof p.text === 'string' ? p.text : ''
PartText(p) ==
  IF OptGet(p, "text").type = "string" THEN OptGet(p, "text").str ELSE <<>>

\* The reply computed from the parsed body:
\*   parts = data?.candidates?.[0]?.content?.parts
\*   Array.isArray(parts) ? parts.map(...).join('\n').trim() : ''
ExtractReply(d) ==
  LET parts == OptGet(OptGet(OptFirst(OptGet(d, "candidates")), "content"), "parts")
  IN  IF parts.type = "array"
      THEN Trim(Join([i \in 1..Len(parts.items) |-> PartText(parts.items[i])], <<"\n">>))
      ELSE <<>>

\* The success body with two text parts, and what JSON.parse makes of it.
TwoPartsBody == "{\"candidates\":[{\"content\":{\"parts\":[{\"text\":\"A\"},{\"text\":\"B\"}]}}]}"
TwoPartsDoc ==
  JObject(<<"candidates">>,
    << JArray(<< JObject(<<"content">>,
         << JObject(<<"parts">>,
              << JArray(<< JObject(<<"text">>, <<JString(<<"A">>)>>),
                           JObject(<<"text">>, <<JString(<<"B">>)>>) >>) >>) >>) >>) >>)

\* JSON.parse(text) for the bodies of the environment: the parsed value, or
\* the SyntaxError it throws for a text that is not JSON.
JsonParse(text) ==
  IF text = "{}" THEN [ok |-> TRUE, value |-> JObject(<<>>, <<>>)]
  ELSE IF text = TwoPartsBody THEN [ok |-> TRUE, value |-> TwoPartsDoc]
  ELSE [ok |-> FALSE, value |-> JUndefined]

\* ------------------------------------------------------ the /chat handler
\* No request body (the handler has nothing to receive).
NoRequest == [text |-> "<none>", prompt |-> "<none>", userPrompt |-> "<none>"]

\* The request bodies a client sends: each of the fields text, prompt and
\* userPrompt is absent or empty (""), or a non-empty text.
RequestBodies == [text : {"", "t"}, prompt : {"", "p"}, userPrompt : {"", "u"}]

\* const userText = text || prompt || userPrompt || ''
UserText(body) ==
  IF body.text # "" THEN body.text
  ELSE IF body.prompt # "" THEN body.prompt
  ELSE IF body.userPrompt # "" THEN body.userPrompt
  ELSE ""

\* Nothing sent yet.
NoResponse == [status |-> 0, error |-> "", upstream |-> -1, body |-> "",
               reply |-> <<>>, raw |-> JUndefined]

\* res.status(code).json({ error, status, body })
ErrorResponse(code, error, upstream, body) ==
  [status |-> code, error |-> error, upstream |-> upstream, body |-> body,
   reply |-> <<>>, raw |-> JUndefined]

\* res.json({ reply, raw }) : status 200
ReplyResponse(reply, raw) ==
  [status |-> 200, error |-> "", upstream |-> -1, body |-> "",
   reply |-> reply, raw |-> raw]

\* The handlers before any request: used where no /chat request is modelled.
InitNoChat ==
  /\ hpc = [h \in DispatchIds |-> "idle"]
  /\ req = [h \in DispatchIds |-> NoRequest]
  /\ data = [h \in DispatchIds |-> JUndefined]
  /\ res = [h \in DispatchIds |-> NoResponse]

\* The raw configuration text whose entries are the strings of pool.
RECURSIVE RawOf(_)
RawOf(pool) ==
  IF Len(pool) = 0 THEN ""
  ELSE IF Len(pool) = 1 THEN pool[1]
  ELSE pool[1] \o "," \o RawOf(Tail(pool))

\* The state of every invocation before it is called.
InitLocals ==
  /\ pc = [d \in DispatchIds |-> "idle"]
  /\ keyIndex = [d \in DispatchIds |-> 0]
  /\ attempt = [d \in DispatchIds |-> 0]
  /\ delayMs = [d \in DispatchIds |-> BaseDelayMs]
  /\ lastError = [d \in DispatchIds |-> Null]
  /\ resp = [d \in DispatchIds |-> NoResp]
  /\ result = [d \in DispatchIds |-> Null]
  /\ inflight = [d \in DispatchIds |-> 0]
  /\ trace = [d \in DispatchIds |-> <<>>]

\* One invocation, any pool, any retry budget.
Init ==
  /\ GEMINI_KEYS \in Pools
  /\ maxRetriesPerKey \in 0..MaxRetriesArg
  /\ requests = {1}
  /\ InitLocals
  /\ RAW_KEYS = RawOf(GEMINI_KEYS)
  /\ InitNoChat

\* ---------------------------------------------------------------- actions
\* Variant of Call without the empty-pool check.
CallWithoutPoolCheck(d) ==
  /\ d \in requests
  /\ pc[d] = "idle"
  /\ lastError' = [lastError EXCEPT ![d] = Null]
  /\ keyIndex' = [keyIndex EXCEPT ![d] = 0]
  /\ pc' = [pc EXCEPT ![d] = "for"]
  /\ UNCHANGED <<outerVars, GEMINI_KEYS, maxRetriesPerKey, requests, attempt, delayMs,
                 resp, result, inflight, trace>>

\* Function entry: the empty-pool check and `let lastError = null`.
Call(d) ==
  /\ d \in requests
  /\ pc[d] = "idle"
  /\ IF Len(GEMINI_KEYS) = 0
     THEN /\ result' = [result EXCEPT ![d] = NoKeysOutcome]
          /\ pc' = [pc EXCEPT ![d] = "done"]
          /\ UNCHANGED <<lastError, keyIndex>>
     ELSE /\ lastError' = [lastError EXCEPT ![d] = Null]
          /\ keyIndex' = [keyIndex EXCEPT ![d] = 0]
          /\ pc' = [pc EXCEPT ![d] = "for"]
          /\ UNCHANGED result
  /\ UNCHANGED <<outerVars, GEMINI_KEYS, maxRetriesPerKey, requests, attempt, delayMs,
                 resp, inflight, trace>>

\* Variant of EnterKey with delayMs declared outside the for loop: the delay
\* is not reset for the next key.
EnterKeyKeepsDelay(d) ==
  /\ pc[d] = "for"
  /\ keyIndex[d] < Len(GEMINI_KEYS)
  /\ attempt' = [attempt EXCEPT ![d] = 0]
  /\ pc' = [pc EXCEPT ![d] = "while"]
  /\ UNCHANGED <<outerVars, GEMINI_KEYS, maxRetriesPerKey, requests, keyIndex, lastError,
                 resp, result, inflight, trace, delayMs>>

\* Head of the for loop, true branch: select the key, reset attempt and delay.
EnterKey(d) ==
  /\ pc[d] = "for"
  /\ keyIndex[d] < Len(GEMINI_KEYS)
  /\ attempt' = [attempt EXCEPT ![d] = 0]
  /\ delayMs' = [delayMs EXCEPT ![d] = BaseDelayMs]
  /\ pc' = [pc EXCEPT ![d] = "while"]
  /\ UNCHANGED <<outerVars, GEMINI_KEYS, maxRetriesPerKey, requests, keyIndex, lastError,
                 resp, result, inflight, trace>>

\* Head of the for loop, false branch: the return after the loop.
Exhausted(d) ==
  /\ pc[d] = "for"
  /\ ~(keyIndex[d] < Len(GEMINI_KEYS))
  /\ result' = [result EXCEPT ![d] = ExhaustedOutcome(lastError[d])]
  /\ pc' = [pc EXCEPT ![d] = "done"]
  /\ UNCHANGED <<outerVars, GEMINI_KEYS, maxRetriesPerKey, requests, keyIndex, attempt,
                 delayMs, lastError, resp, inflight, trace>>

\* Top of the while loop: attempt += 1, then fetch(url, ...) is issued.
IssueFetch(d) ==
  /\ pc[d] = "while"
  /\ attempt' = [attempt EXCEPT ![d] = attempt[d] + 1]
  /\ inflight' = [inflight EXCEPT ![d] = inflight[d] + 1]
  /\ trace' = [trace EXCEPT ![d] = Append(trace[d], Event("call", keyIndex[d], attempt[d] + 1))]
  /\ pc' = [pc EXCEPT ![d] = "await_fetch"]
  /\ UNCHANGED <<outerVars, GEMINI_KEYS, maxRetriesPerKey, requests, keyIndex, delayMs,
                 lastError, resp, result>>

\* What a settled fetch leaves in resp / text.
Response(status, text) == [kind |-> "response", status |-> status, body |-> text, error |-> ""]

\* What a thrown fetch or body read leaves: no response, the exception e.
Thrown(e) == [kind |-> "throw", status |-> -1, body |-> "", error |-> StringOfError(e)]

\* Variant of FetchThrows that retries the same key: `continue` for `break`.
FetchThrowsRetries(d, e) ==
  /\ pc[d] = "await_fetch"
  /\ inflight' = [inflight EXCEPT ![d] = inflight[d] - 1]
  /\ resp' = [resp EXCEPT ![d] = Thrown(e)]
  /\ trace' = [trace EXCEPT ![d] = Append(trace[d], Event("throw", keyIndex[d], 0))]
  /\ lastError' = [lastError EXCEPT ![d] = NetworkErrorOutcome(e)]
  /\ IF attempt[d] <= maxRetriesPerKey
     THEN pc' = [pc EXCEPT ![d] = "while"] /\ UNCHANGED keyIndex
     ELSE /\ keyIndex' = [keyIndex EXCEPT ![d] = keyIndex[d] + 1]
          /\ pc' = [pc EXCEPT ![d] = "for"]
  /\ UNCHANGED <<outerVars, GEMINI_KEYS, maxRetriesPerKey, requests, attempt, delayMs, result>>

\* Variant of FetchThrows that only logs the error: lastError is not set.
FetchThrowsForgetsError(d, e) ==
  /\ pc[d] = "await_fetch"
  /\ inflight' = [inflight EXCEPT ![d] = inflight[d] - 1]
  /\ resp' = [resp EXCEPT ![d] = Thrown(e)]
  /\ trace' = [trace EXCEPT ![d] = Append(trace[d], Event("throw", keyIndex[d], 0))]
  /\ keyIndex' = [keyIndex EXCEPT ![d] = keyIndex[d] + 1]
  /\ pc' = [pc EXCEPT ![d] = "for"]
  /\ UNCHANGED <<outerVars, GEMINI_KEYS, maxRetriesPerKey, requests, attempt, delayMs,
                 result, lastError>>

\* Variant of FetchThrows with lastError declared at module level, one
\* variable for all invocations.
FetchThrowsSharedLastError(d, e) ==
  /\ pc[d] = "await_fetch"
  /\ inflight' = [inflight EXCEPT ![d] = inflight[d] - 1]
  /\ resp' = [resp EXCEPT ![d] = Thrown(e)]
  /\ trace' = [trace EXCEPT ![d] = Append(trace[d], Event("throw", keyIndex[d], 0))]
  /\ lastError' = [x \in DispatchIds |-> NetworkErrorOutcome(e)]
  /\ keyIndex' = [keyIndex EXCEPT ![d] = keyIndex[d] + 1]
  /\ pc' = [pc EXCEPT ![d] = "for"]
  /\ UNCHANGED <<outerVars, GEMINI_KEYS, maxRetriesPerKey, requests, attempt, delayMs, result>>

\* catch (e): fetch() or resp.text() threw.  lastError is recorded and the
\* while loop is left by break; the for loop then increments keyIndex.
FetchThrows(d, e) ==
  /\ pc[d] = "await_fetch"
  /\ inflight' = [inflight EXCEPT ![d] = inflight[d] - 1]
  /\ resp' = [resp EXCEPT ![d] = Thrown(e)]
  /\ trace' = [trace EXCEPT ![d] = Append(trace[d], Event("throw", keyIndex[d], 0))]
  /\ lastError' = [lastError EXCEPT ![d] = NetworkErrorOutcome(e)]
  /\ keyIndex' = [keyIndex EXCEPT ![d] = keyIndex[d] + 1]
  /\ pc' = [pc EXCEPT ![d] = "for"]
  /\ UNCHANGED <<outerVars, GEMINI_KEYS, maxRetriesPerKey, requests, attempt, delayMs, result>>

\* The bookkeeping common to every settled response: resp and text are set.
Settle(d, status, text) ==
  /\ pc[d] = "await_fetch"
  /\ inflight' = [inflight EXCEPT ![d] = inflight[d] - 1]
  /\ resp' = [resp EXCEPT ![d] = Response(status, text)]

\* if (resp.ok) return { ok: true, status, body }
FetchSucceeds(d, status, text) ==
  /\ Settle(d, status, text)
  /\ RespOk(status)
  /\ trace' = [trace EXCEPT ![d] = Append(trace[d], Event("resp", keyIndex[d], status))]
  /\ result' = [result EXCEPT ![d] = OutcomeOf(TRUE, status, text)]
  /\ pc' = [pc EXCEPT ![d] = "done"]
  /\ UNCHANGED <<outerVars, GEMINI_KEYS, maxRetriesPerKey, requests, keyIndex, attempt,
                 delayMs, lastError>>

\* if (resp.status === 503 && attempt <= maxRetriesPerKey + 1): the timer of
\* delayMs is armed and the function suspends on it.
Retry503(d, status, text) ==
  /\ Settle(d, status, text)
  /\ ~RespOk(status)
  /\ ShouldRetry(status, attempt[d], maxRetriesPerKey)
  /\ trace' = [trace EXCEPT ![d] = trace[d] \o <<Event("resp", keyIndex[d], status),
                                                  Event("wait", keyIndex[d], delayMs[d])>>]
  /\ pc' = [pc EXCEPT ![d] = "backoff"]
  /\ UNCHANGED <<outerVars, GEMINI_KEYS, maxRetriesPerKey, requests, keyIndex, attempt,
                 delayMs, lastError, result>>

\* Variant of BackoffElapsed with a constant delay: the doubling is missing.
BackoffElapsedNoDoubling(d) ==
  /\ pc[d] = "backoff"
  /\ resp' = [resp EXCEPT ![d] = NoResp]
  /\ pc' = [pc EXCEPT ![d] = "while"]
  /\ UNCHANGED <<outerVars, GEMINI_KEYS, maxRetriesPerKey, requests, keyIndex, attempt,
                 delayMs, lastError, result, inflight, trace>>

\* The timer fired: delayMs *= 2; continue.  The iteration ends here, and
\* with it the scope of its `let resp; let text;`.
BackoffElapsed(d) ==
  /\ pc[d] = "backoff"
  /\ delayMs' = [delayMs EXCEPT ![d] = delayMs[d] * 2]
  /\ resp' = [resp EXCEPT ![d] = NoResp]
  /\ pc' = [pc EXCEPT ![d] = "while"]
  /\ UNCHANGED <<outerVars, GEMINI_KEYS, maxRetriesPerKey, requests, keyIndex, attempt,
                 lastError, result, inflight, trace>>

\* Variant of Failover429 with an increment of its own in the branch, on top
\* of the one of the for loop.
Failover429DoubleIncrement(d, status, text) ==
  /\ Settle(d, status, text)
  /\ ~RespOk(status)
  /\ ~ShouldRetry(status, attempt[d], maxRetriesPerKey)
  /\ status = 429
  /\ trace' = [trace EXCEPT ![d] = Append(trace[d], Event("resp", keyIndex[d], status))]
  /\ lastError' = [lastError EXCEPT ![d] = OutcomeOf(FALSE, status, text)]
  /\ keyIndex' = [keyIndex EXCEPT ![d] = keyIndex[d] + 2]
  /\ pc' = [pc EXCEPT ![d] = "for"]
  /\ UNCHANGED <<outerVars, GEMINI_KEYS, maxRetriesPerKey, requests, attempt, delayMs, result>>

\* Variant of Failover429 that keeps the first recorded error:
\* lastError = lastError || { ... }.
Failover429KeepsFirst(d, status, text) ==
  /\ Settle(d, status, text)
  /\ ~RespOk(status)
  /\ ~ShouldRetry(status, attempt[d], maxRetriesPerKey)
  /\ status = 429
  /\ trace' = [trace EXCEPT ![d] = Append(trace[d], Event("resp", keyIndex[d], status))]
  /\ lastError' = [lastError EXCEPT ![d] =
                     IF lastError[d] = Null THEN OutcomeOf(FALSE, status, text)
                     ELSE lastError[d]]
  /\ keyIndex' = [keyIndex EXCEPT ![d] = keyIndex[d] + 1]
  /\ pc' = [pc EXCEPT ![d] = "for"]
  /\ UNCHANGED <<outerVars, GEMINI_KEYS, maxRetriesPerKey, requests, attempt, delayMs, result>>

\* if (resp.status === 429): lastError is recorded, break, next key.
Failover429(d, status, text) ==
  /\ Settle(d, status, text)
  /\ ~RespOk(status)
  /\ ~ShouldRetry(status, attempt[d], maxRetriesPerKey)
  /\ status = 429
  /\ trace' = [trace EXCEPT ![d] = Append(trace[d], Event("resp", keyIndex[d], status))]
  /\ lastError' = [lastError EXCEPT ![d] = OutcomeOf(FALSE, status, text)]
  /\ keyIndex' = [keyIndex EXCEPT ![d] = keyIndex[d] + 1]
  /\ pc' = [pc EXCEPT ![d] = "for"]
  /\ UNCHANGED <<outerVars, GEMINI_KEYS, maxRetriesPerKey, requests, attempt, delayMs, result>>

\* Variant of FatalStop that returns the error recorded earlier, if any:
\* return lastError || { ok: false, status, body }.
FatalStopReturnsLastError(d, status, text) ==
  /\ Settle(d, status, text)
  /\ ~RespOk(status)
  /\ ~ShouldRetry(status, attempt[d], maxRetriesPerKey)
  /\ status # 429
  /\ trace' = [trace EXCEPT ![d] = Append(trace[d], Event("resp", keyIndex[d], status))]
  /\ result' = [result EXCEPT ![d] =
                  IF lastError[d] = Null THEN OutcomeOf(FALSE, status, text) ELSE lastError[d]]
  /\ pc' = [pc EXCEPT ![d] = "done"]
  /\ UNCHANGED <<outerVars, GEMINI_KEYS, maxRetriesPerKey, requests, keyIndex, attempt,
                 delayMs, lastError>>

\* Variant of FatalStop that treats the response as a failover: records it
\* and moves to the next key instead of returning.
FatalStopAdvances(d, status, text) ==
  /\ Settle(d, status, text)
  /\ ~RespOk(status)
  /\ ~ShouldRetry(status, attempt[d], maxRetriesPerKey)
  /\ status # 429
  /\ trace' = [trace EXCEPT ![d] = Append(trace[d], Event("resp", keyIndex[d], status))]
  /\ lastError' = [lastError EXCEPT ![d] = OutcomeOf(FALSE, status, text)]
  /\ keyIndex' = [keyIndex EXCEPT ![d] = keyIndex[d] + 1]
  /\ pc' = [pc EXCEPT ![d] = "for"]
  /\ UNCHANGED <<outerVars, GEMINI_KEYS, maxRetriesPerKey, requests, attempt, delayMs, result>>

\* Any other response: return { ok: false, status, body }.
FatalStop(d, status, text) ==
  /\ Settle(d, status, text)
  /\ ~RespOk(status)
  /\ ~ShouldRetry(status, attempt[d], maxRetriesPerKey)
  /\ status # 429
  /\ trace' = [trace EXCEPT ![d] = Append(trace[d], Event("resp", keyIndex[d], status))]
  /\ result' = [result EXCEPT ![d] = OutcomeOf(FALSE, status, text)]
  /\ pc' = [pc EXCEPT ![d] = "done"]
  /\ UNCHANGED <<outerVars, GEMINI_KEYS, maxRetriesPerKey, requests, keyIndex, attempt,
                 delayMs, lastError>>

Next ==
  \/ \E d \in DispatchIds : Call(d)
  \/ \E d \in DispatchIds : EnterKey(d)
  \/ \E d \in DispatchIds : Exhausted(d)
  \/ \E d \in DispatchIds : IssueFetch(d)
  \/ \E d \in DispatchIds, e \in Errors : FetchThrows(d, e)
  \/ \E d \in DispatchIds, s \in Statuses, b \in Bodies : FetchSucceeds(d, s, b)
  \/ \E d \in DispatchIds, s \in Statuses, b \in Bodies : Retry503(d, s, b)
  \/ \E d \in DispatchIds : BackoffElapsed(d)
  \/ \E d \in DispatchIds, s \in Statuses, b \in Bodies : Failover429(d, s, b)
  \/ \E d \in DispatchIds, s \in Statuses, b \in Bodies : FatalStop(d, s, b)

Spec == Init /\ [][Next]_vars

\* ------------------------------------------------- reading the I/O trace
\* The events of one kind in the trace of invocation d, in order.
EventsOf(d, ev) == SelectSeq(trace[d], LAMBDA x : x.ev = ev)

\* The fetch calls of invocation d made with the credential at index k.
CallsTo(d, k) == SelectSeq(trace[d], LAMBDA x : x.ev = "call" /\ x.keyIndex = k)

\* The settlements (responses and throws) of the fetch calls, in order.
Settlements(d) == SelectSeq(trace[d], LAMBDA x : x.ev \in {"resp", "throw"})

\* A status in 200..299, written out for the properties.
Is2xx(n) == n \in 200..299

\* A status the dispatcher neither accepts, retries nor fails over on.
IsFatalStatus(n) == ~Is2xx(n) /\ n # 503 /\ n # 429

\* The failure outcome that describes the last settled fetch of d.
LastFailure(d) ==
  IF resp[d].kind = "throw"
  THEN [ok |-> FALSE, status |-> 0, body |-> resp[d].error]
  ELSE [ok |-> FALSE, status |-> resp[d].status, body |-> resp[d].body]

\* ------------------------------------------------------------------ C1
\* C1: a response with a non-2xx status other than 503 and 429 on
\* credential i is the last I/O of the dispatch: the dispatch is finished,
\* its outcome is the failure carrying that response's status and body, and
\* no call was made with a credential of index above i.
C1_FatalStopsDispatch ==
  \A d \in DispatchIds : \A j \in 1..Len(trace[d]) :
    (trace[d][j].ev = "resp" /\ IsFatalStatus(trace[d][j].n)) =>
      /\ j = Len(trace[d])
      /\ pc[d] = "done"
      /\ resp[d].kind = "response" /\ resp[d].status = trace[d][j].n
      /\ result[d] = [ok |-> FALSE, status |-> trace[d][j].n, body |-> resp[d].body]
      /\ \A c \in 1..Len(trace[d]) : trace[d][c].keyIndex <= trace[d][j].keyIndex

\* A 400 on the first of three credentials, after which the dispatch is over.
C1_Witness ==
  \E d \in DispatchIds :
    /\ Len(GEMINI_KEYS) = 3
    /\ pc[d] = "done"
    /\ keyIndex[d] = 0
    /\ result[d] = [ok |-> FALSE, status |-> 400, body |-> "{}"]

\* ------------------------------------------------------------------ C2
\* The last event of the trace of d is a 503 response that was not followed
\* by a backoff wait: the retry budget of that credential is exceeded.
BudgetExceeded(d) ==
  /\ Len(trace[d]) > 0
  /\ trace[d][Len(trace[d])].ev = "resp"
  /\ trace[d][Len(trace[d])].n = 503

\* C2: when the retry budget of a credential is exceeded by a 503, that
\* 503 is recorded as the last error and the dispatch goes on to the next
\* credential; it ends only when that credential was the last of the pool,
\* and then with the recorded 503 as outcome.
C2_BudgetExceededAdvances ==
  \A d \in DispatchIds :
    BudgetExceeded(d) =>
      /\ lastError[d] = [ok |-> FALSE, status |-> 503, body |-> resp[d].body]
      /\ pc[d] = "done" =>
           /\ trace[d][Len(trace[d])].keyIndex = Len(GEMINI_KEYS) - 1
           /\ result[d] = lastError[d]

\* ------------------------------------------------------------------ C3
\* C3: no credential receives more than maxRetriesPerKey + 1 fetch calls in
\* one dispatch.
C3_AtMostBudgetPlusOneCalls ==
  \A d \in DispatchIds : \A k \in 0..(Len(GEMINI_KEYS) - 1) :
    Len(CallsTo(d, k)) <= maxRetriesPerKey + 1

\* ------------------------------------------------------------------ C4
\* Every fetch of d so far was answered, and answered with 429.
AllAnswered429(d) ==
  /\ Len(EventsOf(d, "throw")) = 0
  /\ \A j \in 1..Len(trace[d]) : trace[d][j].ev = "resp" => trace[d][j].n = 429

\* C4: a finished dispatch over N >= 1 credentials whose every call was
\* answered 429 made exactly N calls, the i-th with credential i and as a
\* first attempt, waited for no backoff, and returns the failure with the
\* status and body of the last 429 received.
C4_All429OneCallPerKey ==
  \A d \in DispatchIds :
    (pc[d] = "done" /\ Len(GEMINI_KEYS) >= 1 /\ AllAnswered429(d)) =>
      /\ Len(EventsOf(d, "call")) = Len(GEMINI_KEYS)
      /\ \A i \in 1..Len(GEMINI_KEYS) :
           /\ EventsOf(d, "call")[i].keyIndex = i - 1
           /\ EventsOf(d, "call")[i].n = 1
      /\ Len(EventsOf(d, "wait")) = 0
      /\ trace[d][Len(trace[d])].keyIndex = Len(GEMINI_KEYS) - 1
      /\ result[d] = [ok |-> FALSE, status |-> 429, body |-> resp[d].body]

\* Three credentials, each answered 429; the first two with bodyX, the last
\* with bodyY, which is the body returned.
C4_Witness ==
  \E d \in DispatchIds :
    /\ pc[d] = "done"
    /\ Len(GEMINI_KEYS) = 3
    /\ AllAnswered429(d)
    /\ Len(trace[d]) = 6
    /\ result[d] = [ok |-> FALSE, status |-> 429, body |-> "{}"]

\* ------------------------------------------------------------------ C5
\* C5: a thrown fetch or body read on credential k is followed by no further
\* call with credential k; right after it the last error is the status-0
\* failure carrying the text of the exception and the loop stands at
\* credential k + 1.  In particular a throw on the first credential followed
\* by a 2xx on the second is one call to each and the success outcome.
C5_NetworkFailureNotRetried ==
  \A d \in DispatchIds :
    /\ \A j \in 1..Len(trace[d]) :
         trace[d][j].ev = "throw" =>
           /\ \A c \in (j + 1)..Len(trace[d]) :
                trace[d][c].keyIndex > trace[d][j].keyIndex
           /\ j = Len(trace[d]) =>
                /\ resp[d].kind = "throw"
                /\ lastError[d] = [ok |-> FALSE, status |-> 0, body |-> resp[d].error]
                /\ keyIndex[d] = trace[d][j].keyIndex + 1
                /\ pc[d] \in {"for", "while", "done"}
    /\ ( /\ pc[d] = "done"
         /\ Len(Settlements(d)) = 2
         /\ Settlements(d)[1].ev = "throw"
         /\ Settlements(d)[2].ev = "resp" /\ Is2xx(Settlements(d)[2].n) )
       => /\ trace[d] = << [ev |-> "call", keyIndex |-> 0, n |-> 1],
                           [ev |-> "throw", keyIndex |-> 0, n |-> 0],
                           [ev |-> "call", keyIndex |-> 1, n |-> 1],
                           [ev |-> "resp", keyIndex |-> 1, n |-> resp[d].status] >>
          /\ result[d] = [ok |-> TRUE, status |-> resp[d].status, body |-> resp[d].body]

\* A throw on the first credential, then 200 on the second: success.
C5_Witness ==
  \E d \in DispatchIds :
    /\ pc[d] = "done"
    /\ Len(trace[d]) = 4
    /\ trace[d][2] = [ev |-> "throw", keyIndex |-> 0, n |-> 0]
    /\ lastError[d] = [ok |-> FALSE, status |-> 0, body |-> "TypeError: fetch failed"]
    /\ result[d] = [ok |-> TRUE, status |-> 200, body |-> "bodyX"]

\* ------------------------------------------------------------------ C6
\* 2 to the power n.
RECURSIVE Pow2(_)
Pow2(n) == IF n = 0 THEN 1 ELSE 2 * Pow2(n - 1)

\* The settlements of d are exactly m responses 503 followed by one 2xx.
RetriedThenSucceeded(d, m) ==
  /\ Len(EventsOf(d, "throw")) = 0
  /\ Len(EventsOf(d, "resp")) = m + 1
  /\ \A i \in 1..m : EventsOf(d, "resp")[i].n = 503
  /\ Is2xx(EventsOf(d, "resp")[m + 1].n)

\* C6: with a single credential answering 503 exactly maxRetriesPerKey times
\* and then 2xx, the dispatch makes maxRetriesPerKey + 1 calls to it, the
\* i-th wait between consecutive calls is 1500 * 2^(i-1), and the outcome is
\* the success with the 2xx status and body.
C6_RetriesThenSuccess ==
  \A d \in DispatchIds :
    (pc[d] = "done" /\ Len(GEMINI_KEYS) = 1 /\ RetriedThenSucceeded(d, maxRetriesPerKey)) =>
      /\ Len(CallsTo(d, 0)) = maxRetriesPerKey + 1
      /\ Len(EventsOf(d, "call")) = maxRetriesPerKey + 1
      /\ Len(EventsOf(d, "wait")) = maxRetriesPerKey
      /\ \A i \in 1..maxRetriesPerKey :
           /\ EventsOf(d, "wait")[i].n = 1500 * Pow2(i - 1)
           \* the i-th wait lies between the i-th and the (i+1)-th call
           /\ trace[d][3 * i] = [ev |-> "wait", keyIndex |-> 0, n |-> 1500 * Pow2(i - 1)]
           /\ trace[d][3 * i + 1].ev = "call"
      /\ result[d] = [ok |-> TRUE, status |-> resp[d].status, body |-> resp[d].body]

\* Budget 2: two 503s, waits of 1500 and 3000, then 200.
C6_Witness ==
  \E d \in DispatchIds :
    /\ pc[d] = "done"
    /\ Len(GEMINI_KEYS) = 1
    /\ maxRetriesPerKey = 2
    /\ RetriedThenSucceeded(d, 2)
    /\ delayMs[d] = 6000
    /\ result[d] = [ok |-> TRUE, status |-> 200, body |-> "{}"]

\* ------------------------------------------------------------------ C7
\* C7: with an empty pool no fetch is ever issued and no backoff is waited
\* for, and the invocation returns the failure of status 0 that says no key
\* is configured.
C7_EmptyPoolFailsFast ==
  \A d \in DispatchIds :
    Len(GEMINI_KEYS) = 0 =>
      /\ trace[d] = <<>>
      /\ inflight[d] = 0
      /\ pc[d] \in {"idle", "done"}
      /\ pc[d] = "done" =>
           result[d] = [ok |-> FALSE, status |-> 0, body |-> "No Gemini API keys configured"]

\* An invocation that returned with an empty pool.
C7_Witness ==
  \E d \in DispatchIds : Len(GEMINI_KEYS) = 0 /\ pc[d] = "done" /\ ~result[d].ok

\* ------------------------------------------------------------------ C8
\* C8: a 2xx response, at whatever credential and attempt, is the last I/O
\* of the dispatch: nothing is in flight or waited for after it, the
\* dispatch is finished, and its outcome is the success carrying that
\* response's status and body, whatever lastError holds.
C8_FirstSuccessEndsDispatch ==
  \A d \in DispatchIds : \A j \in 1..Len(trace[d]) :
    (trace[d][j].ev = "resp" /\ Is2xx(trace[d][j].n)) =>
      /\ j = Len(trace[d])
      /\ pc[d] = "done"
      /\ inflight[d] = 0
      /\ resp[d].kind = "response" /\ resp[d].status = trace[d][j].n
      /\ result[d] = [ok |-> TRUE, status |-> trace[d][j].n, body |-> resp[d].body]

\* A 201 on a retry of the second credential, after an error was recorded
\* on the first.
C8_Witness ==
  \E d \in DispatchIds :
    /\ pc[d] = "done"
    /\ keyIndex[d] = 1
    /\ attempt[d] = 2
    /\ lastError[d].status = 429
    /\ result[d] = [ok |-> TRUE, status |-> 201, body |-> "bodyX"]

\* ------------------------------------------------------------------ C9
\* The invocation d returned from the statement after the for loop.
PoolExhausted(d) ==
  pc[d] = "done" /\ Len(GEMINI_KEYS) >= 1 /\ keyIndex[d] = Len(GEMINI_KEYS)

\* C9: an invocation that ends because the pool is exhausted returns the
\* failure of its last fetch, which was made with the last credential; it
\* returns neither an error of an earlier credential nor the generic
\* fallback.
C9_ExhaustedReturnsLatestError ==
  \A d \in DispatchIds :
    PoolExhausted(d) =>
      /\ Len(trace[d]) > 0
      /\ trace[d][Len(trace[d])].ev \in {"resp", "throw"}
      /\ trace[d][Len(trace[d])].keyIndex = Len(GEMINI_KEYS) - 1
      /\ result[d] = LastFailure(d)
      /\ result[d].body # "All Gemini API keys failed"

\* Exhausted pool of three: the first credential failed with 429/bodyX, the
\* last with a transport error, and that one is returned.
C9_Witness ==
  \E d \in DispatchIds :
    /\ PoolExhausted(d)
    /\ Len(GEMINI_KEYS) = 3
    /\ [ev |-> "resp", keyIndex |-> 0, n |-> 429] \in {trace[d][j] : j \in 1..Len(trace[d])}
    /\ result[d] = [ok |-> FALSE, status |-> 0, body |-> "TypeError: fetch failed"]

\* ----------------------------------------------------------------- C10
\* C10: the calls of a dispatch start at the first credential, each later
\* call uses the same credential as the call before it or the next one in
\* the pool, and at most one call is in flight.
C10_PoolOrderSequential ==
  \A d \in DispatchIds :
    LET calls == EventsOf(d, "call")
    IN  /\ inflight[d] \in {0, 1}
        /\ inflight[d] = 1 => pc[d] = "await_fetch"
        /\ Len(calls) > 0 => calls[1].keyIndex = 0
        /\ \A i \in 1..(Len(calls) - 1) :
             calls[i + 1].keyIndex = calls[i].keyIndex \/ calls[i + 1].keyIndex = calls[i].keyIndex + 1
        /\ \A i \in 1..Len(calls) : calls[i].keyIndex < Len(GEMINI_KEYS)

\* A dispatch that retried the first credential and went on to the third.
C10_Witness ==
  \E d \in DispatchIds :
    /\ Len(CallsTo(d, 0)) >= 2
    /\ Len(CallsTo(d, 1)) >= 1
    /\ Len(CallsTo(d, 2)) >= 1
    /\ inflight[d] = 1

\* ----------------------------------------------------------------- C11
\* Two invocations run at once over the same pool.  Each is suspended at
\* its fetch or its timer while the other one runs; the pools and budgets
\* are the small ones, the responses are all of them.
InitConc ==
  /\ GEMINI_KEYS \in {p \in Pools : Len(p) <= ConcMaxKeys}
  /\ maxRetriesPerKey = 0
  /\ requests = {1, 2}
  /\ InitLocals
  /\ RAW_KEYS = RawOf(GEMINI_KEYS)
  /\ InitNoChat

SpecConc == InitConc /\ [][Next]_vars

\* Everything invocation d owns: its position and its local variables.
Locals(d) == <<pc[d], keyIndex[d], attempt[d], delayMs[d], lastError[d],
               resp[d], result[d], inflight[d], trace[d]>>

\* C11: no step modifies the pool, every step leaves the locals of all
\* invocations but one as they were, and two invocations that stand at the
\* same place after the same sequence of calls, responses and waits hold
\* the same credential index, attempt counter, delay, last error status and
\* outcome, however their steps were interleaved.
C11_NoInterference ==
  /\ [][ /\ GEMINI_KEYS' = GEMINI_KEYS
         /\ \E d \in DispatchIds :
              \A e \in DispatchIds \ {d} : Locals(e)' = Locals(e) ]_vars
  /\ [](\A d, e \in DispatchIds :
          (pc[d] = pc[e] /\ trace[d] = trace[e] /\ resp[d] = resp[e]) =>
            /\ keyIndex[d] = keyIndex[e]
            /\ attempt[d] = attempt[e]
            /\ delayMs[d] = delayMs[e]
            /\ lastError[d].status = lastError[e].status
            /\ result[d] = result[e])

\* Invocation 1 waits for its backoff timer after its first 503 while
\* invocation 2, one retry ahead, has its second call in flight.
C11_Witness ==
  /\ pc[1] = "backoff" /\ attempt[1] = 1 /\ delayMs[1] = 1500
  /\ pc[2] = "await_fetch" /\ attempt[2] = 2 /\ delayMs[2] = 3000

\* ------------------------------------------------- the /chat handler
\* Longest credential pool explored behind the /chat handler.
ChatMaxKeys == 1

\* callGeminiWithRetry(payload, 2)
ChatRetriesArg == 2

\* The dispatcher's variables, which the handler's own steps leave alone.
dispatchVars == <<GEMINI_KEYS, pc, keyIndex, attempt, delayMs, lastError,
                  resp, result, inflight, trace>>

\* if (!userText) return res.status(400).json({ error: 'Empty prompt' })
ChatEmptyPrompt(h) ==
  /\ hpc[h] = "idle"
  /\ req[h] # NoRequest
  /\ UserText(req[h]) = ""
  /\ res' = [res EXCEPT ![h] = ErrorResponse(400, "Empty prompt", -1, "")]
  /\ hpc' = [hpc EXCEPT ![h] = "responded"]
  /\ UNCHANGED <<dispatchVars, maxRetriesPerKey, requests, RAW_KEYS, req, data>>

\* The payload is built and callGeminiWithRetry(payload, 2) is called; the
\* handler waits for its result.
ChatDispatch(h) ==
  /\ hpc[h] = "idle"
  /\ req[h] # NoRequest
  /\ UserText(req[h]) # ""
  /\ requests' = requests \cup {h}
  /\ maxRetriesPerKey' = ChatRetriesArg
  /\ hpc' = [hpc EXCEPT ![h] = "await_dispatch"]
  /\ UNCHANGED <<dispatchVars, RAW_KEYS, req, data, res>>

\* Variant of ChatUpstreamError that passes the downstream status on:
\* res.status(geminiResp.status).
ChatUpstreamErrorPassesStatus(h) ==
  /\ hpc[h] = "await_dispatch"
  /\ pc[h] = "done"
  /\ ~result[h].ok
  /\ res' = [res EXCEPT ![h] =
               ErrorResponse(result[h].status, "Gemini API error", result[h].status, result[h].body)]
  /\ hpc' = [hpc EXCEPT ![h] = "responded"]
  /\ UNCHANGED <<dispatchVars, maxRetriesPerKey, requests, RAW_KEYS, req, data>>

\* if (!geminiResp.ok) return res.status(500).json({ error: 'Gemini API error', ... })
ChatUpstreamError(h) ==
  /\ hpc[h] = "await_dispatch"
  /\ pc[h] = "done"
  /\ ~result[h].ok
  /\ res' = [res EXCEPT ![h] =
               ErrorResponse(500, "Gemini API error", result[h].status, result[h].body)]
  /\ hpc' = [hpc EXCEPT ![h] = "responded"]
  /\ UNCHANGED <<dispatchVars, maxRetriesPerKey, requests, RAW_KEYS, req, data>>

\* JSON.parse(geminiResp.body) throws: 500 'Bad JSON from Gemini'.
ChatBadJson(h) ==
  /\ hpc[h] = "await_dispatch"
  /\ pc[h] = "done"
  /\ result[h].ok
  /\ ~JsonParse(result[h].body).ok
  /\ res' = [res EXCEPT ![h] =
               ErrorResponse(500, "Bad JSON from Gemini", result[h].status, result[h].body)]
  /\ hpc' = [hpc EXCEPT ![h] = "responded"]
  /\ UNCHANGED <<dispatchVars, maxRetriesPerKey, requests, RAW_KEYS, req, data>>

\* data = JSON.parse(geminiResp.body) succeeds.
ChatParsed(h) ==
  /\ hpc[h] = "await_dispatch"
  /\ pc[h] = "done"
  /\ result[h].ok
  /\ JsonParse(result[h].body).ok
  /\ data' = [data EXCEPT ![h] = JsonParse(result[h].body).value]
  /\ hpc' = [hpc EXCEPT ![h] = "parsed"]
  /\ UNCHANGED <<dispatchVars, maxRetriesPerKey, requests, RAW_KEYS, req, res>>

\* Variant of ChatReply that reads data.candidates[0] without optional
\* chaining: a body without candidates throws and the outer catch answers
\* 500 'Proxy error'.
ChatReplyThrowsOnMissing(h) ==
  /\ hpc[h] = "parsed"
  /\ res' = [res EXCEPT ![h] =
               IF OptGet(data[h], "candidates").type = "undefined"
               THEN ErrorResponse(500, "Proxy error", -1, "")
               ELSE ReplyResponse(ExtractReply(data[h]), data[h])]
  /\ hpc' = [hpc EXCEPT ![h] = "responded"]
  /\ UNCHANGED <<dispatchVars, maxRetriesPerKey, requests, RAW_KEYS, req, data>>

\* The reply is extracted and res.json({ reply, raw: data }) is sent.
ChatReply(h) ==
  /\ hpc[h] = "parsed"
  /\ res' = [res EXCEPT ![h] = ReplyResponse(ExtractReply(data[h]), data[h])]
  /\ hpc' = [hpc EXCEPT ![h] = "responded"]
  /\ UNCHANGED <<dispatchVars, maxRetriesPerKey, requests, RAW_KEYS, req, data>>

\* One /chat request with any body, over an empty or a one-key pool.
InitChat ==
  /\ GEMINI_KEYS \in {p \in Pools : Len(p) <= ChatMaxKeys}
  /\ RAW_KEYS = RawOf(GEMINI_KEYS)
  /\ maxRetriesPerKey = ChatRetriesArg
  /\ requests = {}
  /\ InitLocals
  /\ hpc = [h \in DispatchIds |-> "idle"]
  /\ req \in {[h \in DispatchIds |-> IF h = 1 THEN b ELSE NoRequest] : b \in RequestBodies}
  /\ data = [h \in DispatchIds |-> JUndefined]
  /\ res = [h \in DispatchIds |-> NoResponse]

NextChat ==
  \/ Next
  \/ \E h \in DispatchIds : ChatEmptyPrompt(h)
  \/ \E h \in DispatchIds : ChatDispatch(h)
  \/ \E h \in DispatchIds : ChatUpstreamError(h)
  \/ \E h \in DispatchIds : ChatBadJson(h)
  \/ \E h \in DispatchIds : ChatParsed(h)
  \/ \E h \in DispatchIds : ChatReply(h)

SpecChat == InitChat /\ [][NextChat]_vars

\* ----------------------------------------------------------------- C12
\* The bodies of the environment that are JSON texts.
JsonTexts == {"{}", "{\"candidates\":[{\"content\":{\"parts\":[{\"text\":\"A\"},{\"text\":\"B\"}]}}]}"}

\* Handler h has answered a request whose dispatch returned a success.
AnsweredSuccess(h) == hpc[h] = "responded" /\ pc[h] = "done" /\ result[h].ok

\* C12 as stated: every successful outcome of the dispatcher is answered
\* with a success response.
C12_EverySuccessDelivered ==
  \A h \in DispatchIds : AnsweredSuccess(h) => res[h].status = 200

\* C12 as amended: a successful outcome whose body is a JSON text is
\* answered 200, with the empty reply when the body lacks the expected
\* structure; a successful outcome whose body is not JSON is answered 500
\* 'Bad JSON from Gemini'.
C12_ParsedSuccessDelivered ==
  \A h \in DispatchIds :
    AnsweredSuccess(h) =>
      /\ result[h].body \in JsonTexts =>
           /\ res[h].status = 200 /\ res[h].error = ""
           /\ result[h].body = "{}" => res[h].reply = <<>>
      /\ result[h].body \notin JsonTexts =>
           /\ res[h].status = 500 /\ res[h].error = "Bad JSON from Gemini"
           /\ res[h].body = result[h].body

\* A 2xx whose body {} has no candidates, answered 200 with an empty reply.
C12_Witness ==
  \E h \in DispatchIds :
    /\ AnsweredSuccess(h)
    /\ result[h].body = "{}"
    /\ res[h].status = 200 /\ res[h].reply = <<>>

\* ----------------------------------------------------------------- C13
\* The request of handler h carries no user text.
NoUserText(h) == req[h].text = "" /\ req[h].prompt = "" /\ req[h].userPrompt = ""

\* The parts of the mapping that hold of every answered request: 400 and no
\* dispatch without user text, 500 for every failure outcome.
MapsInputAndFailure(h) ==
  /\ NoUserText(h) =>
       /\ res[h].status = 400
       /\ pc[h] = "idle" /\ h \notin requests /\ trace[h] = <<>>
  /\ ~NoUserText(h) =>
       /\ pc[h] = "done"
       /\ ~result[h].ok =>
            /\ res[h].status = 500
            /\ res[h].upstream = result[h].status /\ res[h].body = result[h].body

\* C13 as stated: 400 without user text, 500 for every failure outcome, 200
\* with {reply, raw} for every success outcome.
C13_StatusMapping ==
  \A h \in DispatchIds :
    hpc[h] = "responded" =>
      /\ MapsInputAndFailure(h)
      /\ (~NoUserText(h) /\ result[h].ok) =>
           res[h].status = 200 /\ res[h].raw = data[h] /\ data[h].type # "undefined"

\* C13 as amended: as stated, except that a success outcome gives 200 with
\* {reply, raw} only when its body is a JSON text, and 500 otherwise.
C13_StatusMappingParsed ==
  \A h \in DispatchIds :
    hpc[h] = "responded" =>
      /\ MapsInputAndFailure(h)
      /\ (~NoUserText(h) /\ result[h].ok /\ result[h].body \in JsonTexts) =>
           res[h].status = 200 /\ res[h].raw = data[h] /\ data[h].type # "undefined"
      /\ (~NoUserText(h) /\ result[h].ok /\ result[h].body \notin JsonTexts) =>
           res[h].status = 500

\* A request answered 500 although the downstream status was 429.
C13_Witness ==
  \E h \in DispatchIds :
    /\ hpc[h] = "responded"
    /\ result[h].status = 429
    /\ res[h].status = 500 /\ res[h].upstream = 429

\* ----------------------------------------------------------------- C14
\* Longest parts list explored.
MaxParts == 3

\* All sequences over S of length at most n.
RECURSIVE SeqsUpTo(_, _)
SeqsUpTo(S, n) ==
  IF n = 0 THEN {<<>>}
  ELSE LET shorter == SeqsUpTo(S, n - 1)
       IN  shorter \cup {Append(q, x) : q \in {t \in shorter : Len(t) = n - 1}, x \in S}

\* The parts a candidate may hold: { text: "A" }, { text: "B" },
\* { text: " " }, { text: 5 }, {} and null.
PartKinds ==
  { JObject(<<"text">>, <<JString(<<"A">>)>>),
    JObject(<<"text">>, <<JString(<<"B">>)>>),
    JObject(<<"text">>, <<JString(<<" ">>)>>),
    JObject(<<"text">>, <<JNumber>>),
    JObject(<<>>, <<>>),
    JNull }

\* { candidates: cands }
DocWithCandidates(cands) == JObject(<<"candidates">>, <<cands>>)

\* A candidate { content: { parts: parts } }
CandidateWithParts(parts) ==
  JObject(<<"content">>, << JObject(<<"parts">>, <<parts>>) >>)

\* The parsed success bodies explored: every parts list up to MaxParts in
\* the expected structure, and the ways the structure can be missing.
JsonDocs ==
  { DocWithCandidates(JArray(<<CandidateWithParts(JArray(ps))>>)) : ps \in SeqsUpTo(PartKinds, MaxParts) }
  \cup
  { JNull,
    JObject(<<>>, <<>>),
    DocWithCandidates(JNull),
    DocWithCandidates(JString(<<"A">>)),
    DocWithCandidates(JArray(<<>>)),
    DocWithCandidates(JArray(<<JNull>>)),
    DocWithCandidates(JArray(<<JObject(<<>>, <<>>)>>)),
    DocWithCandidates(JArray(<<JObject(<<"content">>, <<JObject(<<>>, <<>>)>>)>>)),
    DocWithCandidates(JArray(<<CandidateWithParts(JString(<<"A", "B">>))>>)),
    DocWithCandidates(JArray(<<CandidateWithParts(JObject(<<"text">>, <<JString(<<"A">>)>>))>>)),
    DocWithCandidates(JArray(<< CandidateWithParts(JArray(<<JObject(<<"text">>, <<JString(<<"A">>)>>)>>)),
                                CandidateWithParts(JArray(<<JObject(<<"text">>, <<JString(<<"B">>)>>)>>)) >>)) }

\* A handler that has just parsed a success body, any of JsonDocs.  The
\* extraction reads data only; the dispatcher's variables take no part.
InitNormalize ==
  /\ GEMINI_KEYS \in {p \in Pools : Len(p) = 1}
  /\ RAW_KEYS = RawOf(GEMINI_KEYS)
  /\ maxRetriesPerKey = ChatRetriesArg
  /\ requests = {1}
  /\ InitLocals
  /\ hpc = [h \in DispatchIds |-> IF h = 1 THEN "parsed" ELSE "idle"]
  /\ req = [h \in DispatchIds |->
              IF h = 1 THEN [text |-> "t", prompt |-> "", userPrompt |-> ""] ELSE NoRequest]
  /\ data \in {[h \in DispatchIds |-> IF h = 1 THEN doc ELSE JUndefined] : doc \in JsonDocs}
  /\ res = [h \in DispatchIds |-> NoResponse]

NextNormalize == \E h \in DispatchIds : ChatReply(h)

SpecNormalize == InitNormalize /\ [][NextNormalize]_vars

\* The member key of object v (the properties below read parsed bodies with
\* these, not with the handler's accessors).
HasMember(v, key) == v.type = "object" /\ \E i \in 1..Len(v.keys) : v.keys[i] = key
Member(v, key) == v.items[CHOOSE i \in 1..Len(v.keys) : v.keys[i] = key]

\* doc has the shape { candidates: [ { content: { parts: [...] } }, ... ] }.
HasPartsList(doc) ==
  /\ HasMember(doc, "candidates")
  /\ Member(doc, "candidates").type = "array"
  /\ Len(Member(doc, "candidates").items) > 0
  /\ HasMember(Member(doc, "candidates").items[1], "content")
  /\ HasMember(Member(Member(doc, "candidates").items[1], "content"), "parts")
  /\ Member(Member(Member(doc, "candidates").items[1], "content"), "parts").type = "array"

\* The parts of the first candidate of such a doc.
PartsOf(doc) == Member(Member(Member(doc, "candidates").items[1], "content"), "parts").items

\* Part p has a text field that is a string.
HasText(p) == HasMember(p, "text") /\ Member(p, "text").type = "string"

\* The texts joined with a newline between consecutive ones.
RECURSIVE NewlineJoined(_)
NewlineJoined(texts) ==
  IF Len(texts) = 0 THEN <<>>
  ELSE IF Len(texts) = 1 THEN texts[1]
  ELSE NewlineJoined(SubSeq(texts, 1, Len(texts) - 1)) \o <<"\n">> \o texts[Len(texts)]

\* s from its first to its last character that is not white space.
Stripped(s) ==
  LET solid == {i \in 1..Len(s) : s[i] \notin {" ", "\n", "\t"}}
  IN  IF solid = {} THEN <<>>
      ELSE SubSeq(s, CHOOSE i \in solid : \A j \in solid : i <= j,
                     CHOOSE i \in solid : \A j \in solid : i >= j)

\* The text fields that the parts have, in part order.
TextFields(parts) ==
  LET withText == SelectSeq(parts, HasText)
  IN  [i \in 1..Len(withText) |-> Member(withText[i], "text").str]

\* One text per part, in part order: its text field, or the empty text for
\* a part without one.
TextPerPart(parts) ==
  [i \in 1..Len(parts) |-> IF HasText(parts[i]) THEN Member(parts[i], "text").str ELSE <<>>]

\* C14 as stated: the reply is the text fields of the first candidate's
\* parts joined with a newline and trimmed, and empty without a parts list.
C14_ReplyJoinsTextFields ==
  \A h \in DispatchIds :
    (hpc[h] = "responded" /\ res[h].status = 200) =>
      res[h].reply = IF HasPartsList(data[h])
                     THEN Stripped(NewlineJoined(TextFields(PartsOf(data[h]))))
                     ELSE <<>>

\* C14 as amended: every part contributes one text to the join, the empty
\* text when it has no string text field; the join is by newline, in part
\* order, and trimmed; the reply is empty without a parts list.  Parts
\* [{text:"A"},{text:"B"}] give "A\nB".
C14_ReplyJoinsTextPerPart ==
  \A h \in DispatchIds :
    (hpc[h] = "responded" /\ res[h].status = 200) =>
      /\ res[h].reply = IF HasPartsList(data[h])
                        THEN Stripped(NewlineJoined(TextPerPart(PartsOf(data[h]))))
                        ELSE <<>>
      /\ (HasPartsList(data[h]) /\
          PartsOf(data[h]) = << JObject(<<"text">>, <<JString(<<"A">>)>>),
                                JObject(<<"text">>, <<JString(<<"B">>)>>) >>)
           => res[h].reply = <<"A", "\n", "B">>
      /\ res[h].raw = data[h]

\* Parts [{text:"A"}, {}, {text:"B"}]: the reply is "A\n\nB".
C14_Witness ==
  \E h \in DispatchIds :
    /\ hpc[h] = "responded"
    /\ HasPartsList(data[h])
    /\ Len(PartsOf(data[h])) = 3
    /\ res[h].reply = <<"A", "\n", "\n", "B">>

\* ----------------------------------------------------------------- C15
\* Longest raw configuration value explored, in characters.
MaxRawLen == 4

\* The characters of the raw configuration values explored.
RawChars == {"a", "b", " ", ","}

\* raw.split(','): the texts between the commas.
RECURSIVE SplitComma(_)
SplitComma(raw) ==
  IF \E i \in 1..Len(raw) : raw[i] = ","
  THEN LET c == CHOOSE i \in 1..Len(raw) : raw[i] = "," /\ \A j \in 1..(i - 1) : raw[j] # ","
       IN  <<SubSeq(raw, 1, c - 1)>> \o SplitComma(SubSeq(raw, c + 1, Len(raw)))
  ELSE <<raw>>

\* Variant of ParseKeys without .map((k) => k.trim()).
ParseKeysNoTrim(raw) == SelectSeq(SplitComma(raw), LAMBDA k : Len(k) > 0)

\* GEMINI_KEYS = RAW_KEYS.split(',').map((k) => k.trim()).filter(Boolean)
ParseKeys(raw) ==
  LET segs == SplitComma(raw)
  IN  SelectSeq([i \in 1..Len(segs) |-> Trim(segs[i])], LAMBDA k : Len(k) > 0)

\* Startup with any raw configuration value, then one invocation with the
\* smallest retry budget (the pool does not depend on the budget).
InitKeys ==
  /\ RAW_KEYS \in SeqsUpTo(RawChars, MaxRawLen)
  /\ GEMINI_KEYS = ParseKeys(RAW_KEYS)
  /\ maxRetriesPerKey = 0
  /\ requests = {1}
  /\ InitLocals
  /\ InitNoChat

SpecKeys == InitKeys /\ [][Next]_vars

\* The positions of raw that hold a character of a credential: neither a
\* comma nor white space.
Solid(raw) == {i \in 1..Len(raw) : raw[i] \notin {",", " ", "\n", "\t"}}

\* No comma lies between positions i and j of raw.
SameSegment(raw, i, j) == \A c \in i..j : raw[c] # ","

\* The first solid position of each comma-separated segment that has one.
EntryStarts(raw) ==
  {i \in Solid(raw) : \A j \in Solid(raw) : j < i => ~SameSegment(raw, j, i)}

\* The k-th of them, from the left.
KthStart(raw, k) ==
  CHOOSE i \in EntryStarts(raw) : Cardinality({j \in EntryStarts(raw) : j <= i}) = k

\* The last solid position of the segment of position i.
LastSolid(raw, i) ==
  CHOOSE j \in Solid(raw) :
    /\ j >= i /\ SameSegment(raw, i, j)
    /\ \A m \in Solid(raw) : (m >= i /\ SameSegment(raw, i, m)) => m <= j

\* The pool the raw value stands for: per segment that is not blank, in
\* input order, the segment from its first to its last solid character.
TrimmedEntries(raw) ==
  [k \in 1..Cardinality(EntryStarts(raw)) |->
     SubSeq(raw, KthStart(raw, k), LastSolid(raw, KthStart(raw, k)))]

\* Invocation d made calls with one credential value at two pool positions.
ContactsValueTwice(d) ==
  \E i, j \in 0..(Len(GEMINI_KEYS) - 1) :
    /\ i # j
    /\ GEMINI_KEYS[i + 1] = GEMINI_KEYS[j + 1]
    /\ Len(CallsTo(d, i)) > 0 /\ Len(CallsTo(d, j)) > 0

\* C15 as stated: the pool is the trimmed, non-empty entries of the raw
\* value in input order, no credential appears in it twice, and no dispatch
\* contacts one credential value at two pool positions.
C15_PoolDeduplicated ==
  /\ GEMINI_KEYS = TrimmedEntries(RAW_KEYS)
  /\ \A i, j \in 1..Len(GEMINI_KEYS) : i # j => GEMINI_KEYS[i] # GEMINI_KEYS[j]
  /\ \A d \in DispatchIds : ~ContactsValueTwice(d)

\* C15 as amended: at every moment the pool is the trimmed, non-empty
\* entries of the raw value in input order, repeated entries included, and
\* every call of a dispatch is made at a position of that pool.
C15_PoolTrimmedInOrder ==
  /\ GEMINI_KEYS = TrimmedEntries(RAW_KEYS)
  /\ \A i \in 1..Len(GEMINI_KEYS) :
       /\ Len(GEMINI_KEYS[i]) > 0
       /\ GEMINI_KEYS[i][1] # " " /\ GEMINI_KEYS[i][Len(GEMINI_KEYS[i])] # " "
       /\ \A c \in 1..Len(GEMINI_KEYS[i]) : GEMINI_KEYS[i][c] # ","
  /\ \A d \in DispatchIds : \A j \in 1..Len(trace[d]) :
       trace[d][j].keyIndex < Len(GEMINI_KEYS)

\* The raw value "a, a": a pool of two equal credentials, and a dispatch
\* that has contacted both positions.
C15_Witness ==
  /\ RAW_KEYS = <<"a", ",", " ", "a">>
  /\ GEMINI_KEYS = << <<"a">>, <<"a">> >>
  /\ ContactsValueTwice(1)

\* ----------------------------------------------------------------- C16
\* The steps invocation d takes by itself once the event loop resumes it,
\* the firing of its backoff timer included.
OwnStep(d) ==
  Call(d) \/ EnterKey(d) \/ Exhausted(d) \/ IssueFetch(d) \/ BackoffElapsed(d)

\* The pending fetch of invocation d settles, with a response or a throw.
FetchSettles(d) ==
  \/ \E e \in Errors : FetchThrows(d, e)
  \/ \E st \in Statuses, b \in Bodies :
       FetchSucceeds(d, st, b) \/ Retry503(d, st, b) \/ Failover429(d, st, b) \/ FatalStop(d, st, b)

\* The event loop runs every continuation that is ready and fires every
\* timer; the downstream service is not bound to answer.
SpecHang == Init /\ [][Next]_vars /\ \A d \in DispatchIds : WF_vars(OwnStep(d))

\* C16 (its consequence for a call that never completes): a dispatch with
\* a call in flight returns in the end, whether or not the call settles.
C16_HungCallDoesNotBlock ==
  \A d \in DispatchIds : (pc[d] = "await_fetch") ~> (pc[d] = "done")

\* ----------------------------------------------------------------- C17
\* Largest pool explored under the fairness conditions.
FairMaxKeys == 2

\* As Init, with a pool of at most FairMaxKeys credentials.
InitFair == Init /\ Len(GEMINI_KEYS) <= FairMaxKeys

\* As SpecHang, and every fetch settles.
SpecFair ==
  /\ InitFair /\ [][Next]_vars
  /\ \A d \in DispatchIds : WF_vars(OwnStep(d)) /\ WF_vars(FetchSettles(d))

\* C17: when every call and every wait completes, every requested dispatch
\* ends; it never makes more than N * (maxRetriesPerKey + 2) calls; and once
\* it has ended it holds one outcome, which no later step changes.
C17_TerminatesWithOneOutcome ==
  /\ <>[](\A d \in requests : pc[d] = "done")
  /\ [](\A d \in DispatchIds :
          /\ Len(EventsOf(d, "call")) <= Len(GEMINI_KEYS) * (maxRetriesPerKey + 2)
          /\ pc[d] = "done" <=> result[d].status # -1)
  /\ [][\A d \in DispatchIds :
          pc[d] = "done" => (pc'[d] = "done" /\ result'[d] = result[d] /\ trace'[d] = trace[d])]_vars

\* The longest dispatch: two credentials, each answering 503 to every
\* retry and 429 to the last call, 8 calls in all.
C17_Witness ==
  \E d \in DispatchIds :
    /\ pc[d] = "done"
    /\ Len(GEMINI_KEYS) = 2 /\ maxRetriesPerKey = 2
    /\ Len(EventsOf(d, "call")) = 8

\* ----------------------------------------------------------------- C18
\* The backoff waits of invocation d on the credential at index k, in order.
WaitsOn(d, k) == SelectSeq(trace[d], LAMBDA x : x.ev = "wait" /\ x.keyIndex = k)

\* C18: the r-th call with a credential is its attempt r, whatever the
\* earlier credentials went through, and the wait before its r-th retry is
\* 1500 * 2^(r-1); so the first call with each credential is attempt 1 with
\* the delay at 1500, and the waits on one credential strictly increase.
C18_BackoffPerCredential ==
  \A d \in DispatchIds :
    /\ \A k \in 0..(Len(GEMINI_KEYS) - 1) :
         LET calls == CallsTo(d, k)
             waits == WaitsOn(d, k)
         IN  /\ \A r \in 1..Len(calls) : calls[r].n = r
             /\ \A r \in 1..Len(waits) : waits[r].n = 1500 * Pow2(r - 1)
             /\ \A r \in 2..Len(waits) : waits[r - 1].n < waits[r].n
    /\ pc[d] = "await_fetch" => delayMs[d] = 1500 * Pow2(attempt[d] - 1)

\* Two retries on the first credential (waits 1500 and 3000), a failover,
\* and the first retry on the second credential waits 1500 again.
C18_Witness ==
  \E d \in DispatchIds :
    /\ pc[d] = "backoff" /\ keyIndex[d] = 1 /\ delayMs[d] = 1500
    /\ Len(WaitsOn(d, 0)) = 2
    /\ Len(WaitsOn(d, 1)) = 1

\* ----------------------------------------------------------------- C19
\* C19: with a non-empty pool the returned outcome describes the last fetch
\* of the dispatch, which is the last event of its trace: ok is true exactly
\* when that fetch was answered 2xx, status and body are the response's, or
\* 0 and the text of the exception when the fetch threw.
C19_OutcomeIsLastCall ==
  \A d \in DispatchIds :
    (pc[d] = "done" /\ Len(GEMINI_KEYS) >= 1) =>
      /\ Len(trace[d]) > 0
      /\ trace[d][Len(trace[d])].ev \in {"resp", "throw"}
      /\ (trace[d][Len(trace[d])].ev = "throw") <=> (resp[d].kind = "throw")
      /\ resp[d].kind = "response" => trace[d][Len(trace[d])].n = resp[d].status
      /\ result[d].ok <=> (resp[d].kind = "response" /\ Is2xx(resp[d].status))
      /\ result[d].status = IF resp[d].kind = "throw" THEN 0 ELSE resp[d].status
      /\ result[d].body = IF resp[d].kind = "throw" THEN resp[d].error ELSE resp[d].body

\* A 500 on the second credential is returned although a 429 with another
\* body was recorded on the first.
C19_Witness ==
  \E d \in DispatchIds :
    /\ pc[d] = "done" /\ keyIndex[d] = 1
    /\ lastError[d] = [ok |-> FALSE, status |-> 429, body |-> "bodyX"]
    /\ result[d] = [ok |-> FALSE, status |-> 500, body |-> "{}"]

\* ----------------------------------------------------------------- C20
\* C20: no invocation returns the fallback 'All Gemini API keys failed':
\* an empty pool returns 'No Gemini API keys configured', and whenever the
\* for loop is left (or about to be left) lastError is set.
C20_FallbackUnreachable ==
  \A d \in DispatchIds :
    /\ result[d].body # "All Gemini API keys failed"
    /\ (pc[d] = "done" /\ Len(GEMINI_KEYS) = 0) =>
         result[d].body = "No Gemini API keys configured"
    /\ (pc[d] = "for" /\ keyIndex[d] > 0) => lastError[d].status # -1
    /\ (pc[d] = "for" /\ keyIndex[d] = 0) => Len(GEMINI_KEYS) > 0

\* The loop over two credentials is about to end, with lastError set.
C20_Witness ==
  \E d \in DispatchIds :
    /\ pc[d] = "for"
    /\ Len(GEMINI_KEYS) = 2 /\ keyIndex[d] = 2
    /\ lastError[d].status = 0

====
